---- MODULE Spec2Model ----
(***************************************************************************)
(* A model of the real-time ray tracer of src/raytracer.cpp: the vector    *)
(* and colour arithmetic, Sphere::intersect, the recursive shader trace(), *)
(* the frame loop run()/render() and the four input callbacks.             *)
(*                                                                         *)
(* Numbers.  A C++ float is modelled as a fixed-point integer counting     *)
(* thousandths: the real number v is the integer 1000 * v, so that the     *)
(* self-intersection epsilon 0.001f is the integer 1.  Products and        *)
(* quotients are rounded to the nearest thousandth (a float rounds to the  *)
(* nearest representable value as well, only much finer).                  *)
(***************************************************************************)
EXTENDS Integers, Sequences, FiniteSets, TLC

----------------------------------------------------------------------------
(* Fixed-point arithmetic                                                   *)

\* 0.001f, the literal of Sphere::intersect and of the ray offsets of trace()
EPSILON == 1
\* 1.0f
ONE == 1000 * EPSILON

Abs(a) == IF a < 0 THEN -a ELSE a
Sgn(a) == IF a < 0 THEN -1 ELSE 1
Min(a, b) == IF a < b THEN a ELSE b
Max(a, b) == IF a > b THEN a ELSE b

\* a * b for a >= b >= 0, without forming the double-width product
MulSplit(a, b) == (a \div ONE) * b + ((a % ONE) * b + ONE \div 2) \div ONE
\* float * float
Mul(a, b) ==
    LET m == Abs(a)
        n == Abs(b)
    IN  Sgn(a) * Sgn(b) * (IF m >= n THEN MulSplit(m, n) ELSE MulSplit(n, m))
\* float / float, b # 0
Div(a, b) == Sgn(a) * Sgn(b) * ((Abs(a) * ONE + Abs(b) \div 2) \div Abs(b))
\* (int) f: conversion of a float to int truncates toward zero
Trunc(a) == Sgn(a) * (Abs(a) \div ONE)
\* a % b of C++ on ints: the remainder has the sign of the dividend
CRem(a, b) == Sgn(a) * (Abs(a) % b)

\* the largest r in lo..hi with r * r <= n  (lo * lo <= n)
RECURSIVE ISqrtIter(_, _, _)
ISqrtIter(n, lo, hi) ==
    IF lo >= hi THEN lo
    ELSE LET mid == (lo + hi + 1) \div 2
         IN  IF mid * mid <= n THEN ISqrtIter(n, mid, hi)
             ELSE ISqrtIter(n, lo, mid - 1)
\* floor of the square root of a natural number below 2^31
ISqrt(n) == ISqrtIter(n, 0, 46340)
\* sqrt(v), v >= 0: exact to a thousandth while 1000 * v fits a machine
\* integer, to a hundredth above
Sqrt(v) == IF v <= 2000000 THEN ISqrt(v * ONE) ELSE 10 * ISqrt(v * 10)

\* M_PI, 2 * M_PI and M_PI / 2 in thousandths
Pi == 3142
TwoPi == 6283
HalfPi == 1571
\* sin on [-pi/2, pi/2]: x - x^3/3! + x^5/5! - x^7/7! + x^9/9!
SinPoly(x) ==
    LET x2 == Mul(x, x)
        x3 == Mul(x2, x)
        x5 == Mul(x3, x2)
        x7 == Mul(x5, x2)
        x9 == Mul(x7, x2)
    IN  x - x3 \div 6 + x5 \div 120 - x7 \div 5040 + x9 \div 362880
\* sin(x), x in radians
Sin(x) ==
    LET r == x % TwoPi
        s == IF r <= HalfPi THEN SinPoly(r)
             ELSE IF r <= Pi + HalfPi THEN SinPoly(Pi - r)
             ELSE SinPoly(r - TwoPi)
    IN  Max(-ONE, Min(ONE, s))
\* cos(x)
Cos(x) == Sin(x + HalfPi)
\* atan(z) for 0 <= z <= 1: z * (pi/4 + 0.273 * (1 - z)), within 0.004 rad
AtanUnit(z) == Mul(z, Pi \div 4 + Mul(273, ONE - z))
\* atan2(y, x)
Atan2(y, x) ==
    LET ay == Abs(y)
        ax == Abs(x)
        a  == IF ax = 0 /\ ay = 0 THEN 0
              ELSE IF ax >= ay THEN AtanUnit(Div(ay, ax))
              ELSE HalfPi - AtanUnit(Div(ax, ay))
        q  == IF x >= 0 THEN a ELSE Pi - a
    IN  IF y < 0 THEN -q ELSE q
\* asin(y), -1 <= y <= 1
Asin(y) == Atan2(y, Sqrt(Max(0, ONE - Mul(y, y))))

----------------------------------------------------------------------------
(* struct Vec3                                                              *)

Vec3(x, y, z) == [x |-> x, y |-> y, z |-> z]
ZeroVec == Vec3(0, 0, 0)
\* operator+
VAdd(a, b) == Vec3(a.x + b.x, a.y + b.y, a.z + b.z)
\* operator-
VSub(a, b) == Vec3(a.x - b.x, a.y - b.y, a.z - b.z)
\* operator*(float)
VScale(a, s) == Vec3(Mul(a.x, s), Mul(a.y, s), Mul(a.z, s))
dot(a, b) == Mul(a.x, b.x) + Mul(a.y, b.y) + Mul(a.z, b.z)
cross(a, b) ==
    Vec3(Mul(a.y, b.z) - Mul(a.z, b.y),
         Mul(a.z, b.x) - Mul(a.x, b.z),
         Mul(a.x, b.y) - Mul(a.y, b.x))
\* len > 0 ? *this * (1.0f / len) : Vec3().  The quotient is taken per
\* component: at three decimals 1.0f / len alone would lose the digits a float
\* keeps.
normalize(a) ==
    LET len == Sqrt(dot(a, a))
    IN  IF len > 0 THEN Vec3(Div(a.x, len), Div(a.y, len), Div(a.z, len))
        ELSE ZeroVec
\* *this - n * 2.0f * this->dot(n)
reflect(d, n) == VSub(d, VScale(VScale(n, 2 * ONE), dot(d, n)))
\* Snell's law; Vec3() stands for total internal reflection
refract(d, n, eta) ==
    LET cos_i  == -dot(d, n)
        sin_t2 == Mul(Mul(eta, eta), ONE - Mul(cos_i, cos_i))
    IN  IF sin_t2 >= ONE THEN ZeroVec
        ELSE VAdd(VScale(d, eta),
                  VScale(n, Mul(eta, cos_i) - Sqrt(ONE - sin_t2)))

----------------------------------------------------------------------------
(* struct Color                                                             *)

Color(r, g, b) == [r |-> r, g |-> g, b |-> b]
\* Color(): black
Black == Color(0, 0, 0)
\* operator+
CAdd(a, b) == Color(a.r + b.r, a.g + b.g, a.b + b.b)
\* operator*(float)
CScale(a, s) == Color(Mul(a.r, s), Mul(a.g, s), Mul(a.b, s))
\* operator*(const Color&)
CMul(a, b) == Color(Mul(a.r, b.r), Mul(a.g, b.g), Mul(a.b, b.b))
\* no clamp at all (C2 does not hold of it)
clampNone(c) == c
\* std::min(1.0f, channel) on each channel
clamp(c) == Color(Min(ONE, c.r), Min(ONE, c.g), Min(ONE, c.b))

----------------------------------------------------------------------------
(* struct Texture                                                           *)

\* the checkerboard the constructor writes into data[y * width + x]
TextureData(x, y) ==
    IF ((x \div 16) + (y \div 16)) % 2 # 0 THEN Color(800, 800, 800)
    ELSE Color(200, 200, 200)
\* Texture(64, 64), the one texture the constructor makes (line 198)
Checkerboard == [width |-> 64, height |-> 64]
\* Texture::sample
sample(tex, u, v) ==
    LET x0 == CRem(Trunc(u * tex.width), tex.width)
        y0 == CRem(Trunc(v * tex.height), tex.height)
        x  == IF x0 < 0 THEN x0 + tex.width ELSE x0
        y  == IF y0 < 0 THEN y0 + tex.height ELSE y0
    IN  TextureData(x, y)

----------------------------------------------------------------------------
(* struct Ray, struct Sphere                                                *)

\* the constructor normalizes the direction
Ray(o, d) == [origin |-> o, direction |-> normalize(d)]
at(ray, t) == VAdd(ray.origin, VScale(ray.direction, t))

\* Sphere::texture: nullptr, or the pointer to the checkerboard texture
NoTexture == "nullptr"
CheckerboardPtr == "checkerboard_texture"
Sphere(c, r, col, met, trans, ri, tex) ==
    [center |-> c, radius |-> r, color |-> col, metallic |-> met,
     transparency |-> trans, refractive_index |-> ri, texture |-> tex]

\* the value -1 that intersect returns for "no hit"
NoHit == -ONE
\* Sphere::intersect.  A ray of zero direction has a = 0 and t = 0/0, which
\* compares false with 0.001f.
intersect(s, ray) ==
    LET oc == VSub(ray.origin, s.center)
        a == dot(ray.direction, ray.direction)
        b == 2 * dot(oc, ray.direction)
        c == dot(oc, oc) - Mul(s.radius, s.radius)
        discriminant == Mul(b, b) - 4 * Mul(a, c)
        t == Div(-b - Sqrt(discriminant), 2 * a)
    IN  IF discriminant < 0 THEN NoHit
        ELSE IF a = 0 THEN NoHit
        ELSE IF t > EPSILON THEN t
        ELSE NoHit
\* Sphere::normal
normal(s, point) == normalize(VSub(point, s.center))
\* Sphere::getUV
getU(s, point) ==
    LET n == normal(s, point) IN ONE \div 2 + Div(Atan2(n.z, n.x), TwoPi)
getV(s, point) ==
    LET n == normal(s, point) IN ONE \div 2 - Div(Asin(n.y), Pi)
\* Sphere::getColor
getColor(s, point) ==
    IF s.texture # NoTexture
    THEN CMul(sample(Checkerboard, getU(s, point), getV(s, point)), s.color)
    ELSE s.color

----------------------------------------------------------------------------
(* The state of a RealTimeRayTracer, of run() and render(), and of the      *)
(* recursion of trace()                                                     *)

VARIABLES
    spheres,            \* std::vector<Sphere> spheres
    frameBuffer,        \* std::vector<unsigned char> frameBuffer
    width, height,      \* int width, height
    camera_pos,         \* Vec3 camera_pos
    camera_angle_x,     \* float camera_angle_x
    camera_angle_y,     \* float camera_angle_y
    camera_distance,    \* float camera_distance
    time,               \* float time
    rng,                \* std::mt19937 rng
    samples_per_pixel,  \* int samples_per_pixel
    shouldClose,        \* the window's close flag (glfwWindowShouldClose)
    mouse_last,         \* static double last_x, last_y of mouseCallback
    frame_count,        \* int frame_count of run()
    pc,                 \* where run() / render() stands
    px, py,             \* int x, y of render()
    sample_i,           \* int sample of render()
    pixel_color,        \* Color pixel_color of render()
    abs_int,            \* whether abs (lines 224, 301) resolves to ::abs(int);
                        \* the standard library of the build decides
    stack,              \* the activation records of trace(), outermost first
    ret,                \* the Color the last finished trace() returned
    trace_steps,        \* history: the steps the last trace(ray) has taken
    scan,               \* history: the nearest-hit search of the last trace()
    events,             \* history: the callbacks GLFW has made, in order
    animations,         \* history: animation updates since the frame began
    written             \* history: frame-buffer indices written this frame

vars == <<spheres, frameBuffer, width, height, camera_pos, camera_angle_x,
          camera_angle_y, camera_distance, time, rng, samples_per_pixel,
          shouldClose, mouse_last, frame_count, pc, px, py, sample_i,
          pixel_color, abs_int, stack, ret, trace_steps, scan, events,
          animations, written>>

\* the fields of the tracer that trace() reads and never writes
sceneVars == <<spheres, camera_pos, time>>
\* the state of run() and render() outside trace()
frameVars == <<frameBuffer, width, height, camera_angle_x, camera_angle_y,
               camera_distance, samples_per_pixel, shouldClose, mouse_last,
               frame_count, pc, px, py, sample_i, pixel_color, abs_int,
               events, animations, written>>

----------------------------------------------------------------------------
(* The random source.  std::mt19937 is a deterministic generator seeded     *)
(* once, from std::random_device, in the constructor; it is modelled by a   *)
(* full-period linear congruential generator on RngPeriod states, and       *)
(* dist(rng) by the state scaled to [0, 1).                                 *)

RngPeriod == 16
\* the float dist(rng) returns in state r
RngValue(r) == (r * ONE) \div RngPeriod
\* the state after one draw
RngNext(r) == (5 * r + 1) % RngPeriod

----------------------------------------------------------------------------
(* class RealTimeRayTracer: the helpers of trace()                          *)

\* the unqualified abs(float) of lines 224 and 301: the float overload, or
\* ::abs(int) on the argument converted to int
abs(x) == IF abs_int THEN ONE * Abs(Trunc(x)) ELSE Abs(x)

\* sampleHemisphere, with the two draws r1, r2 of dist(rng) as arguments
sampleHemisphere(n, r1, r2) ==
    LET cos_theta == Sqrt(r1)
        sin_theta == Sqrt(ONE - r1)
        phi == Mul(TwoPi, r2)
        w == n
        u == normalize(cross(IF abs(w.x) > 100 THEN Vec3(0, ONE, 0)
                             ELSE Vec3(ONE, 0, 0), w))
        v == cross(w, u)
    IN  VAdd(VAdd(VScale(VScale(u, Cos(phi)), sin_theta),
                  VScale(VScale(v, Sin(phi)), sin_theta)),
             VScale(w, cos_theta))
\* fresnel
fresnel(cos_i, eta) ==
    LET sin_t == Mul(eta, Sqrt(Max(0, ONE - Mul(cos_i, cos_i))))
        cos_t == Sqrt(Max(0, ONE - Mul(sin_t, sin_t)))
        r_perp == Div(Mul(eta, cos_i) - cos_t, Mul(eta, cos_i) + cos_t)
        r_parallel == Div(cos_i - Mul(eta, cos_t), cos_i + Mul(eta, cos_t))
    IN  IF sin_t >= ONE THEN ONE
        ELSE Mul(Mul(r_perp, r_perp) + Mul(r_parallel, r_parallel), ONE \div 2)

----------------------------------------------------------------------------
(* trace()                                                                  *)

\* the recursion cap of line 243 and the cutoff of global illumination
MAX_DEPTH == 8
GI_DEPTH == 3
\* 0.5f: global illumination is for spheres less metallic than this
GI_METALLIC == 500
\* a cap that lets one more call through (C6 does not hold of it)
overCapLate(depth) == depth > MAX_DEPTH + 1
\* the test of line 243
overCap(depth) == depth > MAX_DEPTH
\* Color(0.1f, 0.1f, 0.2f)
Sky == Color(100, 100, 200)
\* float closest_t = 1e30f: above every t the model can compute
CLOSEST_INIT == 2000000000

\* the t that line 250 computes for each sphere of the scene
intersections(sphs, ray) == [i \in 1..Len(sphs) |-> intersect(sphs[i], ray)]
\* a test that lets a later sphere replace an equally near one (C7 does not
\* hold of it)
closerOrEqual(t, closest_t) == t > 0 /\ t <= closest_t
\* the test of line 251
closer(t, closest_t) == t > 0 /\ t < closest_t
\* the loop of lines 249-255 from sphere i on, over the values ts of t: the
\* closest hit so far is sphere `hit` (0: none) at closest_t
RECURSIVE closestFrom(_, _, _, _)
closestFrom(ts, i, closest_t, hit) ==
    IF i > Len(ts) THEN [t |-> closest_t, hit |-> hit, ts |-> ts]
    ELSE IF closer(ts[i], closest_t) THEN closestFrom(ts, i + 1, ts[i], i)
    ELSE closestFrom(ts, i + 1, closest_t, hit)
closestHit(sphs, ray) ==
    closestFrom(intersections(sphs, ray), 1, CLOSEST_INIT, 0)

\* Vec3 light_pos(sin(time) * 3, 2, cos(time) * 3 - 3)
lightPos(t) == Vec3(Sin(t) * 3, 2 * ONE, Cos(t) * 3 - 3 * ONE)
\* the shadow test of lines 268-275
inShadow(sphs, hit, shadow_ray) ==
    \E i \in 1..Len(sphs) : i # hit /\ intersect(sphs[i], shadow_ray) > 0
\* lines 259-278: the direct lighting of the point where ray meets sphere hit
directColor(sphs, t_now, ray, hit, closest_t) ==
    LET hit_point == at(ray, closest_t)
        n == normal(sphs[hit], hit_point)
        material_color == getColor(sphs[hit], hit_point)
        light_dir == normalize(VSub(lightPos(t_now), hit_point))
        shadow_ray == Ray(VAdd(hit_point, VScale(n, EPSILON)), light_dir)
        light_intensity ==
            IF inShadow(sphs, hit, shadow_ray) THEN 100
            ELSE Max(100, dot(n, light_dir))
    IN  CScale(material_color, light_intensity)

\* an activation record of trace(ray, depth); kind says which call site made it
Frame(ray, depth, kind) ==
    [ray |-> ray, depth |-> depth, kind |-> kind, part |-> "enter", hit |-> 0,
     hit_point |-> ZeroVec, normal |-> ZeroVec, material_color |-> Black,
     final_color |-> Black, refract_color |-> Black, children |-> 0]
Top == stack[Len(stack)]
SetTop(f) == [stack EXCEPT ![Len(stack)] = f]
Pop == SubSeq(stack, 1, Len(stack) - 1)
\* the top record moves to part `to` and calls trace(ray, depth + 1)
Call(f, to, ray, kind) ==
    Append(SetTop([f EXCEPT !.part = to, !.children = @ + 1]),
           Frame(ray, f.depth + 1, kind))

\* lines 290-295
cosI(f) == dot(VScale(f.ray.direction, -ONE), f.normal)
etaOf(f) ==
    IF cosI(f) > 0 THEN Div(ONE, spheres[f.hit].refractive_index)
    ELSE spheres[f.hit].refractive_index
refractNormal(f) == IF cosI(f) > 0 THEN f.normal ELSE VScale(f.normal, -ONE)
refractDir(f) == refract(f.ray.direction, refractNormal(f), etaOf(f))
\* Ray reflect_ray(hit_point + normal * 0.001f, reflect_dir)
reflectRay(f) ==
    Ray(VAdd(f.hit_point, VScale(f.normal, EPSILON)),
        reflect(f.ray.direction, f.normal))

\* the conditions of the three recursive parts (lines 281, 289 and 296, 312)
doesReflect(f) == spheres[f.hit].metallic > 0
doesRefract(f) == spheres[f.hit].transparency > 0 /\ refractDir(f) # ZeroVec
\* global illumination at every depth (C9 does not hold of it)
doesGIAnyDepth(f) == spheres[f.hit].metallic < GI_METALLIC
doesGI(f) == f.depth < GI_DEPTH /\ spheres[f.hit].metallic < GI_METALLIC
\* the part of trace() that runs next, from the given part on
afterReflect(f) ==
    IF doesRefract(f) THEN "refract" ELSE IF doesGI(f) THEN "gi" ELSE "return"
afterEnter(f) == IF doesReflect(f) THEN "reflect" ELSE afterReflect(f)
afterRefract(f) == IF doesGI(f) THEN "gi" ELSE "return"

\* what the entry of trace(f.ray, f.depth) did: the spheres it queried with
\* the t each intersect() returned, and the hit it kept
Scanned(f, sphs, h) ==
    [ray |-> f.ray, depth |-> f.depth, spheres |-> sphs, ts |-> h.ts,
     hit |-> h.hit, closest_t |-> h.t]
\* no sphere was queried
Unqueried == [t |-> CLOSEST_INIT, hit |-> 0, ts |-> <<>>]
NoScan == Scanned(Frame(Ray(ZeroVec, ZeroVec), 0, "none"), <<>>, Unqueried)

\* lines 243-278: the depth cap, the nearest hit, the miss, the direct light
TraceEnter ==
    /\ stack # <<>> /\ Top.part = "enter"
    /\ trace_steps' = trace_steps + 1
    /\ IF overCap(Top.depth)
       THEN /\ ret' = Sky
            /\ stack' = Pop
            /\ scan' = Scanned(Top, <<>>, Unqueried)
       ELSE LET h == closestHit(spheres, Top.ray)
            IN  IF h.hit = 0
                THEN /\ ret' = Sky
                     /\ stack' = Pop
                     /\ scan' = Scanned(Top, spheres, h)
                ELSE LET point == at(Top.ray, h.t)
                         f == [Top EXCEPT
                                 !.hit = h.hit,
                                 !.hit_point = point,
                                 !.normal = normal(spheres[h.hit], point),
                                 !.material_color =
                                     getColor(spheres[h.hit], point),
                                 !.final_color =
                                     directColor(spheres, time, Top.ray,
                                                 h.hit, h.t)]
                     IN  /\ stack' = SetTop([f EXCEPT !.part = afterEnter(f)])
                         /\ ret' = ret
                         /\ scan' = Scanned(Top, spheres, h)
    /\ UNCHANGED <<sceneVars, frameVars, rng>>

\* lines 281-284: the reflection ray is traced
TraceReflect ==
    /\ stack # <<>> /\ Top.part = "reflect"
    /\ trace_steps' = trace_steps + 1
    /\ stack' = Call(Top, "reflected", reflectRay(Top), "reflection")
    /\ UNCHANGED <<sceneVars, frameVars, rng, ret, scan>>

\* line 285: the blend by metallic
TraceReflected ==
    /\ stack # <<>> /\ Top.part = "reflected"
    /\ trace_steps' = trace_steps + 1
    /\ LET m == spheres[Top.hit].metallic
           c == CAdd(CScale(Top.final_color, ONE - m), CScale(ret, m))
       IN  stack' = SetTop([Top EXCEPT !.final_color = c,
                                       !.part = afterReflect(Top)])
    /\ UNCHANGED <<sceneVars, frameVars, rng, ret, scan>>

\* lines 297-298: the refracted ray is traced
TraceRefract ==
    /\ stack # <<>> /\ Top.part = "refract"
    /\ trace_steps' = trace_steps + 1
    /\ stack' = Call(Top, "refracted",
                     Ray(VSub(Top.hit_point,
                              VScale(refractNormal(Top), EPSILON)),
                         refractDir(Top)),
                     "refraction")
    /\ UNCHANGED <<sceneVars, frameVars, rng, ret, scan>>

\* lines 302-304: the reflected ray of the Fresnel blend is traced
TraceFresnel ==
    /\ stack # <<>> /\ Top.part = "refracted"
    /\ trace_steps' = trace_steps + 1
    /\ stack' = Call([Top EXCEPT !.refract_color = ret], "fresnel",
                     reflectRay(Top), "fresnel")
    /\ UNCHANGED <<sceneVars, frameVars, rng, ret, scan>>

\* lines 301, 306-307: the Fresnel blend and the blend by transparency
TraceFresnelBlend ==
    /\ stack # <<>> /\ Top.part = "fresnel"
    /\ trace_steps' = trace_steps + 1
    /\ LET fresnel_factor == fresnel(abs(cosI(Top)), etaOf(Top))
           transparent_color ==
               CAdd(CScale(ret, fresnel_factor),
                    CScale(Top.refract_color, ONE - fresnel_factor))
           tr == spheres[Top.hit].transparency
           c == CAdd(CScale(Top.final_color, ONE - tr),
                     CScale(transparent_color, tr))
       IN  stack' = SetTop([Top EXCEPT !.final_color = c,
                                       !.part = afterRefract(Top)])
    /\ UNCHANGED <<sceneVars, frameVars, rng, ret, scan>>

\* lines 313-315: two draws, and the global-illumination ray is traced
TraceGI ==
    /\ stack # <<>> /\ Top.part = "gi"
    /\ trace_steps' = trace_steps + 1
    /\ LET r1 == RngValue(rng)
           r2 == RngValue(RngNext(rng))
           random_dir == sampleHemisphere(Top.normal, r1, r2)
       IN  stack' = Call(Top, "gi_done",
                         Ray(VAdd(Top.hit_point, VScale(Top.normal, EPSILON)),
                             random_dir),
                         "gi")
    /\ rng' = RngNext(RngNext(rng))
    /\ UNCHANGED <<sceneVars, frameVars, ret, scan>>

\* line 316: final_color + gi_color * material_color * 0.1f
TraceGIAdd ==
    /\ stack # <<>> /\ Top.part = "gi_done"
    /\ trace_steps' = trace_steps + 1
    /\ LET c == CAdd(Top.final_color,
                     CScale(CMul(ret, Top.material_color), 100))
       IN  stack' = SetTop([Top EXCEPT !.final_color = c, !.part = "return"])
    /\ UNCHANGED <<sceneVars, frameVars, rng, ret, scan>>

\* line 319: return final_color.clamp()
TraceReturn ==
    /\ stack # <<>> /\ Top.part = "return"
    /\ trace_steps' = trace_steps + 1
    /\ ret' = clamp(Top.final_color)
    /\ stack' = Pop
    /\ UNCHANGED <<sceneVars, frameVars, rng, scan>>

TraceStep ==
    \/ TraceEnter
    \/ TraceReflect
    \/ TraceReflected
    \/ TraceRefract
    \/ TraceFresnel
    \/ TraceFresnelBlend
    \/ TraceGI
    \/ TraceGIAdd
    \/ TraceReturn

----------------------------------------------------------------------------
(* The constructor and createScene()                                        *)

\* createScene(), lines 208-211
createScene ==
    << Sphere(Vec3(-2 * ONE, 0, -5 * ONE), ONE, Color(800, 200, 200),
              900, 0, ONE, NoTexture),
       Sphere(Vec3(0, 0, -5 * ONE), ONE, Color(900, 900, 900),
              0, 900, 1520, NoTexture),
       Sphere(Vec3(2 * ONE, 0, -5 * ONE), ONE, Color(200, 200, 800),
              0, 0, ONE, NoTexture),
       Sphere(Vec3(0, -101 * ONE, -5 * ONE), 100 * ONE, Color(ONE, ONE, ONE),
              0, 0, ONE, CheckerboardPtr) >>

\* the sizes glfwGetFramebufferSize and the resize callback may report
FbSizes == {<<0, 0>>, <<1, 1>>, <<2, 2>>}
\* the seeds std::random_device may give
Seeds == {0, 8}
\* one byte a pixel instead of three (C10 does not hold of it)
bufferSizeGray(w, h) == w * h
\* width * height * 3, the size lines 180 and 460 give the frame buffer
bufferSize(w, h) == w * h * 3
\* std::vector::resize(n): the first elements kept, zeros appended
resize(buf, n) == [i \in 1..n |-> IF i <= Len(buf) THEN buf[i] ELSE 0]

Init ==
    /\ spheres = createScene
    /\ \E sz \in FbSizes :
          /\ width = sz[1]
          /\ height = sz[2]
          /\ frameBuffer = resize(<<>>, bufferSize(sz[1], sz[2]))
    /\ camera_pos = Vec3(0, 0, 5 * ONE)
    /\ camera_angle_x = 0
    /\ camera_angle_y = 0
    /\ camera_distance = 5 * ONE
    /\ time = 0
    /\ rng \in Seeds
    /\ samples_per_pixel = 2
    /\ shouldClose = FALSE
    /\ mouse_last = <<>>
    /\ frame_count = 0
    /\ pc = "loop"
    /\ px = 0
    /\ py = 0
    /\ sample_i = 0
    /\ pixel_color = Black
    /\ abs_int \in BOOLEAN
    /\ stack = <<>>
    /\ ret = Black
    /\ trace_steps = 0
    /\ scan = NoScan
    /\ events = <<>>
    /\ animations = 0
    /\ written = <<>>

----------------------------------------------------------------------------
(* run() and render()                                                       *)

\* the frames a run of the model renders
MaxFrames == 2
\* the seconds (in thousandths) the clock may measure between two frames
DeltaTimes == {500}

\* lines 381-386: the loop test and the advance of time
RunLoop ==
    /\ pc = "loop"
    /\ UNCHANGED <<events, abs_int, trace_steps>>
    /\ IF shouldClose
       THEN /\ pc' = "exit"
            /\ UNCHANGED <<time, animations>>
       ELSE /\ frame_count < MaxFrames
            /\ \E delta_time \in DeltaTimes : time' = time + delta_time
            /\ animations' = 0
            /\ pc' = "render"
    /\ UNCHANGED <<spheres, frameBuffer, width, height, camera_pos,
                   camera_angle_x, camera_angle_y, camera_distance, rng,
                   samples_per_pixel, shouldClose, mouse_last, frame_count,
                   px, py, sample_i, pixel_color, stack, ret, scan,
                   written>>

\* lines 324-326
cameraPos ==
    Vec3(Mul(Mul(camera_distance, Sin(camera_angle_x)), Cos(camera_angle_y)),
         Mul(camera_distance, Sin(camera_angle_y)),
         Mul(Mul(camera_distance, Cos(camera_angle_x)), Cos(camera_angle_y)))
\* lines 329-331
animate(sphs, t) ==
    [sphs EXCEPT ![1].center.y = Mul(Sin(t * 2), 500),
                 ![2].center.x = Mul(Sin(t), 500),
                 ![3].center.z = -5 * ONE + Mul(Sin(Mul(t, 1500)), 300)]

\* lines 324-335: the camera, the animation, and the head of the pixel loops
RenderBegin ==
    /\ pc = "render"
    /\ UNCHANGED <<events, abs_int, trace_steps>>
    /\ camera_pos' = cameraPos
    /\ spheres' = animate(spheres, time)
    /\ animations' = animations + 1
    /\ written' = <<>>
    /\ px' = 0
    /\ py' = 0
    /\ pc' = IF height > 0 /\ width > 0 THEN "pixel" ELSE "display"
    /\ UNCHANGED <<frameBuffer, width, height, camera_angle_x, camera_angle_y,
                   camera_distance, time, rng, samples_per_pixel, shouldClose,
                   mouse_last, frame_count, sample_i, pixel_color, stack, ret,
                   scan>>

\* lines 336-339: Color pixel_color; sample = 0
RenderPixel ==
    /\ pc = "pixel"
    /\ UNCHANGED <<events, abs_int, trace_steps>>
    /\ pixel_color' = Black
    /\ sample_i' = 0
    /\ pc' = "sample"
    /\ UNCHANGED <<spheres, frameBuffer, width, height, camera_pos,
                   camera_angle_x, camera_angle_y, camera_distance, time, rng,
                   samples_per_pixel, shouldClose, mouse_last, frame_count,
                   px, py, stack, ret, scan, animations, written>>

\* lines 341-349: the primary ray through pixel (x, y) with the two jitters
primaryRay(x, y, jitter_x, jitter_y) ==
    LET u == Div(x * ONE + jitter_x, width * ONE) * 2 - ONE
        v0 == Div(y * ONE + jitter_y, height * ONE) * 2 - ONE
        v == Mul(v0, Div(height * ONE, width * ONE))
    IN  Ray(camera_pos, normalize(Vec3(u, -v, -ONE)))

\* lines 339-351: one more sample of the pixel is traced
RenderSample ==
    /\ pc = "sample"
    /\ UNCHANGED <<events, abs_int>>
    /\ sample_i < samples_per_pixel
    /\ trace_steps' = 0
    /\ LET jitter_x == RngValue(rng) - ONE \div 2
           jitter_y == RngValue(RngNext(rng)) - ONE \div 2
       IN  stack' = <<Frame(primaryRay(px, py, jitter_x, jitter_y), 0,
                            "primary")>>
    /\ rng' = RngNext(RngNext(rng))
    /\ pc' = "trace"
    /\ UNCHANGED <<spheres, frameBuffer, width, height, camera_pos,
                   camera_angle_x, camera_angle_y, camera_distance, time,
                   samples_per_pixel, shouldClose, mouse_last, frame_count,
                   px, py, sample_i, pixel_color, ret, scan, animations,
                   written>>

\* line 351: pixel_color = pixel_color + trace(ray), and ++sample
RenderAccumulate ==
    /\ pc = "trace"
    /\ UNCHANGED <<events, abs_int, trace_steps>>
    /\ stack = <<>>
    /\ pixel_color' = CAdd(pixel_color, ret)
    /\ sample_i' = sample_i + 1
    /\ pc' = "sample"
    /\ UNCHANGED <<spheres, frameBuffer, width, height, camera_pos,
                   camera_angle_x, camera_angle_y, camera_distance, time, rng,
                   samples_per_pixel, shouldClose, mouse_last, frame_count,
                   px, py, stack, ret, scan, animations, written>>

\* line 355: pixel_color * (1.0f / samples_per_pixel).  The quotient is taken
\* per channel: in float arithmetic n * (1.0f / n) is exactly 1 for n in 1..8,
\* which 1.0f / n cut to three decimals would not keep.
average(c, n) == Color(Div(c.r, n * ONE), Div(c.g, n * ONE), Div(c.b, n * ONE))
\* (unsigned char)(channel * 255): the fraction is dropped; a value outside
\* 0..255 has no defined conversion, and any byte may result
toByte(channel) ==
    IF 0 <= Trunc(channel * 255) /\ Trunc(channel * 255) <= 255
    THEN {Trunc(channel * 255)}
    ELSE 0..255
\* frameBuffer[i] = b for the 0-based index i.  An index past the end of the
\* vector leaves the buffer as it is here; `written` records the index all
\* the same, and C10 shows that render() never has one.
store(buf, i, b) == IF i + 1 \in DOMAIN buf THEN [buf EXCEPT ![i + 1] = b] ELSE buf

\* lines 355-360 and the loop heads: the pixel is averaged and written
RenderWrite ==
    /\ pc = "sample"
    /\ UNCHANGED <<events, abs_int, trace_steps>>
    /\ sample_i >= samples_per_pixel
    /\ LET c == average(pixel_color, samples_per_pixel)
           index == (py * width + px) * 3
       IN  /\ \E r \in toByte(c.r), g \in toByte(c.g), b \in toByte(c.b) :
                 frameBuffer' =
                     store(store(store(frameBuffer, index, r), index + 1, g),
                           index + 2, b)
           /\ written' = written \o <<index, index + 1, index + 2>>
           /\ pixel_color' = c
    /\ px' = IF px + 1 < width THEN px + 1 ELSE 0
    /\ py' = IF px + 1 < width THEN py ELSE py + 1
    /\ pc' = IF px + 1 < width \/ py + 1 < height THEN "pixel" ELSE "display"
    /\ UNCHANGED <<spheres, width, height, camera_pos, camera_angle_x,
                   camera_angle_y, camera_distance, time, rng,
                   samples_per_pixel, shouldClose, mouse_last, frame_count,
                   sample_i, stack, ret, scan, animations>>

\* lines 365 and 390: glDrawPixels, then glfwSwapBuffers; glfwPollEvents is next
RenderDisplay ==
    /\ pc = "display"
    /\ UNCHANGED <<events, abs_int, trace_steps>>
    /\ pc' = "poll"
    /\ UNCHANGED <<spheres, frameBuffer, width, height, camera_pos,
                   camera_angle_x, camera_angle_y, camera_distance, time, rng,
                   samples_per_pixel, shouldClose, mouse_last, frame_count,
                   px, py, sample_i, pixel_color, stack, ret, scan,
                   animations, written>>

\* lines 391-401: glfwPollEvents returns; frame_count++, the sleep, the loop
PollDone ==
    /\ pc = "poll"
    /\ UNCHANGED <<events, abs_int, trace_steps>>
    /\ frame_count' = frame_count + 1
    /\ pc' = "loop"
    /\ UNCHANGED <<spheres, frameBuffer, width, height, camera_pos,
                   camera_angle_x, camera_angle_y, camera_distance, time, rng,
                   samples_per_pixel, shouldClose, mouse_last, px, py,
                   sample_i, pixel_color, stack, ret, scan, animations,
                   written>>

----------------------------------------------------------------------------
(* The input callbacks.  GLFW calls them on the thread of run(), from       *)
(* inside glfwPollEvents (line 391).                                        *)

\* callbacks that could also arrive while a pixel is sampled, as they would
\* from a second thread (C1 does not hold of it)
EventsDispatchedSampling == pc \in {"poll", "sample"}
EventsDispatched == pc = "poll"
\* the callbacks GLFW makes in a run of the model
MaxEvents == 2

Keys == {"ESCAPE", "W", "S", "A", "D", "Q", "E", "SPACE"}
KeyActions == {"PRESS", "REPEAT", "RELEASE"}
\* cursor positions, in pixels
MousePositions == {<<0, 0>>, <<10, 10>>}
\* scroll offsets (double yoffset): a notch and a half, one back, and two
\* that overshoot either end of the range
ScrollOffsets == {-40 * ONE, -ONE, 1500, 40 * ONE}
\* the camera angles of the model stay within MaxAngle tenths of a radian
MaxAngle == 1
AngleOk(a) == Abs(a) <= MaxAngle * 100

\* std::max(1, samples_per_pixel - 1) and std::min(8, samples_per_pixel + 1)
MIN_SAMPLES == 1
MAX_SAMPLES == 8
decSamples(n) == Max(MIN_SAMPLES, n - 1)
\* an increment without the cap (C5 does not hold of it)
incSamplesUncapped(n) == n + 1
incSamples(n) == Min(MAX_SAMPLES, n + 1)

\* keyCallback, lines 411-434
keyCallback(key, action) ==
    /\ shouldClose' = (shouldClose \/ (key = "ESCAPE" /\ action = "PRESS"))
    /\ IF action \in {"PRESS", "REPEAT"}
       THEN /\ camera_angle_y' =
                   IF key = "W" THEN camera_angle_y + 100
                   ELSE IF key = "S" THEN camera_angle_y - 100
                   ELSE camera_angle_y
            /\ camera_angle_x' =
                   IF key = "A" THEN camera_angle_x - 100
                   ELSE IF key = "D" THEN camera_angle_x + 100
                   ELSE camera_angle_x
            /\ samples_per_pixel' =
                   IF key = "Q" THEN decSamples(samples_per_pixel)
                   ELSE IF key = "E" THEN incSamples(samples_per_pixel)
                   ELSE samples_per_pixel
       ELSE UNCHANGED <<camera_angle_x, camera_angle_y, samples_per_pixel>>
    /\ AngleOk(camera_angle_x') /\ AngleOk(camera_angle_y')
    /\ UNCHANGED <<spheres, frameBuffer, width, height, camera_pos,
                   camera_distance, time, rng, mouse_last, frame_count, pc,
                   px, py, sample_i, pixel_color, stack, ret, scan,
                   animations, written>>
KeyEvent ==
    /\ EventsDispatched
    /\ Len(events) < MaxEvents
    /\ events' = Append(events, "key")
    /\ UNCHANGED <<abs_int, trace_steps>>
    /\ \E key \in Keys, action \in KeyActions : keyCallback(key, action)

\* mouseCallback, lines 436-447; pressed is glfwGetMouseButton(...) == GLFW_PRESS
mouseCallback(xpos, ypos, pressed) ==
    LET last == IF mouse_last = <<>> THEN <<xpos, ypos>> ELSE mouse_last
    IN  /\ IF pressed
           THEN /\ camera_angle_x' = camera_angle_x + (xpos - last[1]) * 10
                /\ camera_angle_y' = camera_angle_y + (ypos - last[2]) * 10
           ELSE UNCHANGED <<camera_angle_x, camera_angle_y>>
        /\ AngleOk(camera_angle_x') /\ AngleOk(camera_angle_y')
        /\ mouse_last' = <<xpos, ypos>>
        /\ UNCHANGED <<spheres, frameBuffer, width, height, camera_pos,
                       camera_distance, time, rng, samples_per_pixel,
                       shouldClose, frame_count, pc, px, py, sample_i,
                       pixel_color, stack, ret, scan, animations, written>>
MouseEvent ==
    /\ EventsDispatched
    /\ Len(events) < MaxEvents
    /\ events' = Append(events, "mouse")
    /\ UNCHANGED <<abs_int, trace_steps>>
    /\ \E pos \in MousePositions, pressed \in BOOLEAN :
          mouseCallback(pos[1], pos[2], pressed)

\* the bounds of lines 452-453 and the distance of line 155
MIN_DISTANCE == 1000
MAX_DISTANCE == 20000
\* only the lower bound is applied (C8 does not hold of it)
clampDistanceBelow(d) == IF d < MIN_DISTANCE THEN MIN_DISTANCE ELSE d
clampDistance(d) ==
    LET lo == IF d < MIN_DISTANCE THEN MIN_DISTANCE ELSE d
    IN  IF lo > MAX_DISTANCE THEN MAX_DISTANCE ELSE lo
\* scrollCallback, lines 449-454
scrollCallback(yoffset) ==
    /\ camera_distance' = clampDistance(camera_distance + Mul(yoffset, -500))
    /\ UNCHANGED <<spheres, frameBuffer, width, height, camera_pos,
                   camera_angle_x, camera_angle_y, time, rng,
                   samples_per_pixel, shouldClose, mouse_last, frame_count,
                   pc, px, py, sample_i, pixel_color, stack, ret, scan,
                   animations, written>>
ScrollEvent ==
    /\ EventsDispatched
    /\ Len(events) < MaxEvents
    /\ events' = Append(events, "scroll")
    /\ UNCHANGED <<abs_int, trace_steps>>
    /\ \E yoffset \in ScrollOffsets : scrollCallback(yoffset)

\* framebufferSizeCallback, lines 456-462
framebufferSizeCallback(w, h) ==
    /\ width' = w
    /\ height' = h
    /\ frameBuffer' = resize(frameBuffer, bufferSize(w, h))
    /\ UNCHANGED <<spheres, camera_pos, camera_angle_x, camera_angle_y,
                   camera_distance, time, rng, samples_per_pixel, shouldClose,
                   mouse_last, frame_count, pc, px, py, sample_i, pixel_color,
                   stack, ret, scan, animations, written>>
FramebufferSizeEvent ==
    /\ EventsDispatched
    /\ Len(events) < MaxEvents
    /\ events' = Append(events, "framebufferSize")
    /\ UNCHANGED <<abs_int, trace_steps>>
    /\ \E sz \in FbSizes : framebufferSizeCallback(sz[1], sz[2])

----------------------------------------------------------------------------
(* The program: the constructor, then run()                                 *)

Next ==
    \/ RunLoop
    \/ RenderBegin
    \/ RenderPixel
    \/ RenderSample
    \/ TraceStep
    \/ RenderAccumulate
    \/ RenderWrite
    \/ RenderDisplay
    \/ KeyEvent
    \/ MouseEvent
    \/ ScrollEvent
    \/ FramebufferSizeEvent
    \/ PollDone

Spec == Init /\ [][Next]_vars

----------------------------------------------------------------------------
(* The program with the keyboard as its only input device: any number of    *)
(* key events, which the history does not record                            *)

KeyboardEvent ==
    /\ EventsDispatched
    /\ UNCHANGED <<events, abs_int, trace_steps>>
    /\ \E key \in Keys, action \in KeyActions : keyCallback(key, action)

NextKeys ==
    \/ RunLoop
    \/ RenderBegin
    \/ RenderPixel
    \/ RenderSample
    \/ TraceStep
    \/ RenderAccumulate
    \/ RenderWrite
    \/ RenderDisplay
    \/ KeyboardEvent
    \/ PollDone

SpecKeys == Init /\ [][NextKeys]_vars

----------------------------------------------------------------------------
(* trace() as a function: one call trace(ray, depth) on a tracer whose      *)
(* scene, clock and generator are drawn from bounded sets                   *)

White == Color(ONE, ONE, ONE)
\* two mirrors facing each other on the z axis
MirrorPair ==
    << Sphere(Vec3(0, 0, -3 * ONE), ONE, White, ONE, 0, ONE, NoTexture),
       Sphere(Vec3(0, 0, 3 * ONE), ONE, White, ONE, 0, ONE, NoTexture) >>
\* two overlapping spheres, mirror images of each other in the plane x = 0,
\* in front of a third one
TwinSpheres ==
    << Sphere(Vec3(-ONE, 0, -5 * ONE), 1500, Color(ONE, 0, 0), 0, 0, ONE,
              NoTexture),
       Sphere(Vec3(ONE, 0, -5 * ONE), 1500, Color(0, ONE, 0), 0, 0, ONE,
              NoTexture),
       Sphere(Vec3(0, 0, -9 * ONE), ONE, Color(0, 0, ONE), 0, 0, ONE,
              NoTexture) >>
\* a white diffuse sphere right below the light, and a sphere that is partly
\* metallic and partly transparent
LitSpheres ==
    << Sphere(Vec3(0, -ONE, 0), ONE, White, 0, 0, ONE, NoTexture),
       Sphere(Vec3(0, 0, -5 * ONE), ONE, White, 400, 500, 1520, NoTexture) >>
TraceScenes == {createScene, MirrorPair, TwinSpheres, LitSpheres}

TraceRays ==
    { Ray(Vec3(0, 0, 5 * ONE), Vec3(0, 0, -ONE)),
      Ray(Vec3(0, 0, 0), Vec3(0, 0, -ONE)),
      Ray(Vec3(0, ONE, 0), Vec3(0, -ONE, 0)),
      Ray(Vec3(0, 0, -5 * ONE), Vec3(0, 0, ONE)),
      Ray(Vec3(0, 0, 5 * ONE), Vec3(-2 * ONE, 0, -10 * ONE)),
      Ray(Vec3(0, 0, 5 * ONE), Vec3(0, -ONE, -ONE)) }
\* the depths a call of the model starts at
MaxStartDepth == 10

\* a tracer about to evaluate trace(ray, depth), depth among depths
TraceCall(depths) ==
    /\ spheres \in TraceScenes
    /\ width = 0
    /\ height = 0
    /\ frameBuffer = <<>>
    /\ camera_pos = Vec3(0, 0, 5 * ONE)
    /\ camera_angle_x = 0
    /\ camera_angle_y = 0
    /\ camera_distance = 5 * ONE
    /\ time \in {0, 1571}
    /\ rng \in 0..(RngPeriod - 1)
    /\ samples_per_pixel = 2
    /\ shouldClose = FALSE
    /\ mouse_last = <<>>
    /\ frame_count = 0
    /\ pc = "call"
    /\ px = 0
    /\ py = 0
    /\ sample_i = 0
    /\ pixel_color = Black
    /\ abs_int \in BOOLEAN
    /\ \E ray \in TraceRays, depth \in depths :
          stack = <<Frame(ray, depth, "primary")>>
    /\ ret = Black
    /\ trace_steps = 0
    /\ scan = NoScan
    /\ events = <<>>
    /\ animations = 0
    /\ written = <<>>

InitTrace == TraceCall(0..MaxStartDepth)
SpecTrace == InitTrace /\ [][TraceStep]_vars

\* one more step of trace().  Of the steps of TraceStep these are all, and
\* TraceStep can take one whenever a record is on the stack
TraceAdvance == stack # <<>> /\ trace_steps' = trace_steps + 1
\* the calls trace(ray, 0), the ones render() makes (depth defaults to 0).
\* trace() runs to its return: nothing else is scheduled on its thread
InitTraceZero == TraceCall({0})
SpecTraceZero ==
    InitTraceZero /\ [][TraceStep]_vars /\ WF_trace_steps(TraceAdvance)

----------------------------------------------------------------------------
(* The program with the keyboard, together with the calls of trace() on the *)
(* scenes of TraceScenes: every place where a Color is returned or averaged *)

InitShading == Init \/ InitTrace
SpecShading == InitShading /\ [][NextKeys]_vars

----------------------------------------------------------------------------
(* Properties of Sphere::intersect and of trace(), stated of SpecTrace      *)

\* the entry of trace(): the top record has not yet tested its depth
AtEntry == stack # <<>> /\ Top.part = "enter"
\* the top record of the behaviour's stack after a step that kept its height
TopAfter == stack'[Len(stack)]

\* the two roots of the quadratic of sphere s and ray, the near one first; no
\* roots when the discriminant is negative
Roots(s, ray) ==
    LET oc == VSub(ray.origin, s.center)
        a == dot(ray.direction, ray.direction)
        b == 2 * dot(oc, ray.direction)
        c == dot(oc, oc) - Mul(s.radius, s.radius)
        discriminant == Mul(b, b) - 4 * Mul(a, c)
    IN  IF discriminant < 0 \/ a = 0 THEN <<>>
        ELSE << Div(-b - Sqrt(discriminant), 2 * a),
                Div(-b + Sqrt(discriminant), 2 * a) >>
\* the smaller root that exceeds the epsilon, -1 when there is none
SmallerRootAboveEpsilon(s, ray) ==
    LET r == Roots(s, ray)
    IN  IF r = <<>> THEN NoHit
        ELSE IF r[1] > EPSILON THEN r[1]
        ELSE IF r[2] > EPSILON THEN r[2]
        ELSE NoHit

\* C3: for every sphere and ray, Sphere::intersect returns the smaller of the
\* two roots that exceeds the epsilon 0.001 (the near root, else the far root
\* when the ray starts inside or on the sphere), and -1 only when there is no
\* such root; every hit it reports has t > 0.001.  Stated of the values the
\* nearest-hit search of trace() got from intersect.
C3_IntersectSmallerRoot ==
    \A i \in DOMAIN scan.ts :
        /\ scan.ts[i] = SmallerRootAboveEpsilon(scan.spheres[i], scan.ray)
        /\ scan.ts[i] # NoHit => scan.ts[i] > EPSILON

\* C6: a call trace(ray, depth) with depth above the cap 8 returns exactly
\* the sky colour (0.1, 0.1, 0.2), whatever the ray and the scene, queries no
\* sphere and makes no nested call.
C6_OverCapReturnsSky ==
    [][(AtEntry /\ Top.depth > 8)
          => /\ ret' = Color(100, 100, 200)
             /\ stack' = Pop
             /\ scan'.depth = Top.depth
             /\ scan'.spheres = <<>>
             /\ scan'.ts = <<>>]_vars
\* a call at depth 9, nested eight deep below a call at depth 0, has returned
\* the sky without a query
C6_Witness ==
    /\ scan.depth = 9
    /\ scan.spheres = <<>>
    /\ ret = Color(100, 100, 200)
    /\ Len(stack) = 9
    /\ stack[1].depth = 0

\* the spheres of ts with a valid t, and those of them with the smallest t
ValidHits(ts) == {i \in DOMAIN ts : ts[i] > 0}
NearestHits(ts) ==
    {i \in ValidHits(ts) : \A j \in ValidHits(ts) : ts[i] <= ts[j]}
FirstOf(S) == CHOOSE i \in S : \A j \in S : i <= j

\* C7: the nearest-hit search of trace() selects, among the spheres whose
\* intersect result is valid (t > 0), the one with the smallest t, and among
\* several with exactly that t the first in scene order; with no valid t the
\* call is a miss, returns the sky colour and shades nothing.
C7_NearestHitFirstWins ==
    [][(AtEntry /\ Top.depth <= 8)
          => LET ts == [i \in DOMAIN spheres |->
                           intersect(spheres[i], Top.ray)]
             IN  IF ValidHits(ts) = {}
                 THEN ret' = Color(100, 100, 200) /\ stack' = Pop
                 ELSE /\ Len(stack') = Len(stack)
                      /\ TopAfter.hit = FirstOf(NearestHits(ts))
                      /\ TopAfter.hit_point = at(Top.ray, ts[TopAfter.hit])]_vars
\* two spheres were hit at exactly the same smallest t, a third one farther
\* away, and the search kept the first of the two
C7_Witness ==
    /\ scan.hit = 1
    /\ scan.ts[1] > 0
    /\ scan.ts[2] = scan.ts[1]
    /\ Len(scan.ts) = 3
    /\ scan.ts[3] > scan.ts[1]
    /\ stack # <<>>
    /\ Top.hit = 1

\* the shape of the tree of calls, as far as the stack shows it
C9_Tree ==
    /\ \A i \in 2..Len(stack) :
          /\ stack[i].depth = stack[i - 1].depth + 1
          /\ stack[i].kind \in {"reflection", "refraction", "fresnel", "gi"}
          /\ stack[i].kind = "gi"
                => /\ stack[i - 1].depth < 3
                   /\ spheres[stack[i - 1].hit].metallic < 500
    /\ \A i \in DOMAIN stack :
          /\ stack[i].children <= 4
          /\ stack[i].part \in
                IF i = Len(stack)
                THEN {"enter", "reflect", "reflected", "refract", "refracted",
                      "fresnel", "gi", "gi_done", "return"}
                ELSE {"reflected", "refracted", "fresnel", "gi_done"}
    /\ (stack # <<>> /\ stack[1].depth = 0)
          => \A i \in DOMAIN stack : stack[i].depth <= 9
\* C9: every evaluation of trace(ray, 0) terminates; each nested ray is
\* traced at the depth of its caller plus one, no call has a depth above 9, a
\* global-illumination ray is cast only by a call of depth below 3 on a sphere
\* with metallic < 0.5, and no call makes more than four nested calls.
C9_BoundedTreeTerminates ==
    /\ []C9_Tree
    /\ <>(stack = <<>>)
\* a call at depth 9 below a call at depth 0, every call between them having
\* made its one nested call
C9_Witness ==
    /\ Len(stack) = 10
    /\ stack[1].depth = 0
    /\ stack[10].depth = 9
    /\ \A i \in 1..9 : stack[i].children >= 1

----------------------------------------------------------------------------
(* Properties of the frame loop and of the callbacks, stated of Spec        *)

\* render() is between its animation step and the last write of the frame
Sampling == pc \in {"pixel", "sample", "trace"}
\* some callback of the given kind has been made
Dispatched(kind) == \E i \in DOMAIN events : events[i] = kind

\* C1: in every frame the animation step of render() runs exactly once,
\* before the first ray of the frame, and from then to the last frame-buffer
\* write of the frame no step (no callback, no advance of time) changes the
\* spheres, the camera position, the time, the viewport or samples_per_pixel.
C1_NoMutationMidFrame ==
    /\ [](pc \in {"pixel", "sample", "trace", "display", "poll"}
            => animations = 1)
    /\ [][Sampling
            => UNCHANGED <<spheres, camera_pos, time, width, height,
                           samples_per_pixel>>]_vars
\* the second frame is being traced, after callbacks of the first frame's
\* glfwPollEvents, with part of the frame already written
C1_Witness ==
    /\ pc = "trace"
    /\ stack # <<>>
    /\ frame_count = 1
    /\ events # <<>>
    /\ written # <<>>
    /\ animations = 1

\* C8: camera_distance starts at 5 and is in [1, 20] ever after; a scroll
\* callback adds -0.5 * yoffset and clamps the sum to 1 below and 20 above,
\* and nothing else changes it, so that every render() uses a distance in
\* [1, 20].
C8_CameraDistanceClamped ==
    /\ camera_distance = 5000
    /\ [](1000 <= camera_distance /\ camera_distance <= 20000)
    /\ [][IF events' = Append(events, "scroll")
          THEN \E yoffset \in ScrollOffsets :
                  camera_distance' =
                      Max(1000, Min(20000, camera_distance - yoffset \div 2))
          ELSE camera_distance' = camera_distance]_vars
\* a frame is traced from the far end of the range, where a scroll that
\* overshot has left the camera
C8_Witness ==
    /\ pc = "trace"
    /\ stack # <<>>
    /\ Dispatched("scroll")
    /\ camera_distance = 20000
    /\ camera_pos.z = 20000

\* C10: whenever render() runs the frame buffer has width * height * 3
\* bytes, whatever resize callbacks came between the frames; the indices it
\* writes are inside the buffer, and they are 0, 1, 2, ... in this order, each
\* once: row-major order, three bytes a pixel, all of them by the end.
C10_BufferMatchesViewport ==
    pc \in {"render", "pixel", "sample", "trace", "display"}
       => /\ Len(frameBuffer) = width * height * 3
          /\ pc # "render"
                => \A k \in DOMAIN written :
                      written[k] = k - 1 /\ written[k] < Len(frameBuffer)
          /\ Sampling
                => /\ 0 <= px /\ px < width
                   /\ 0 <= py /\ py < height
                   /\ Len(written) = (py * width + px) * 3
          /\ pc = "display" => Len(written) = width * height * 3
\* a frame of 2 x 2 pixels has been written in full after a resize callback
C10_Witness ==
    /\ pc = "display"
    /\ Dispatched("framebufferSize")
    /\ frame_count = 1
    /\ width = 2
    /\ height = 2
    /\ Len(written) = 12

\* clamp(c, 0, 1) * 255 rounded to the nearest integer
RoundedByte(channel) == (Max(0, Min(ONE, channel)) * 255 + ONE \div 2) \div ONE
\* C4: each byte render() writes for an averaged pixel colour c is
\* round(clamp(c, 0, 1) * 255): rounded to the nearest integer, not
\* truncated.  Stated of the three bytes of the pixel written last.
C4_BytesAreRounded ==
    (pc \in {"pixel", "display"} /\ written # <<>>)
       => LET n == Len(written)
          IN  /\ frameBuffer[written[n - 2] + 1] = RoundedByte(pixel_color.r)
              /\ frameBuffer[written[n - 1] + 1] = RoundedByte(pixel_color.g)
              /\ frameBuffer[written[n] + 1] = RoundedByte(pixel_color.b)

----------------------------------------------------------------------------
(* Properties stated of SpecKeys and of SpecShading                         *)

\* C5: samples_per_pixel starts at 2 and is in [1, 8] ever after; a Q that is
\* pressed or repeated takes one off unless it is 1, an E adds one unless it
\* is 8, and at 1 and at 8 they leave it as it is; render() never averages
\* over zero samples.
C5_SamplesPerPixelClamped ==
    /\ samples_per_pixel = 2
    /\ [](1 <= samples_per_pixel /\ samples_per_pixel <= 8)
    /\ [][\A action \in {"PRESS", "REPEAT"} :
            /\ keyCallback("Q", action)
                  => samples_per_pixel' =
                        IF samples_per_pixel = 1 THEN 1
                        ELSE samples_per_pixel - 1
            /\ keyCallback("E", action)
                  => samples_per_pixel' =
                        IF samples_per_pixel = 8 THEN 8
                        ELSE samples_per_pixel + 1]_vars
\* a pixel has got its eight samples, the most the E key allows
C5_Witness ==
    /\ pc = "sample"
    /\ samples_per_pixel = 8
    /\ sample_i = 8
    /\ frame_count = 1

\* all three channels are in [0, 1]
InUnit(c) == \A channel \in {c.r, c.g, c.b} : 0 <= channel /\ channel <= ONE
\* C2: every colour trace() returns, and every averaged pixel colour of
\* render(), has its three channels in [0, 1], for scenes whose colours,
\* metallic and transparency are in [0, 1], at every depth and for every
\* sample count from 1 to 8.
C2_ColorsInUnitRange ==
    /\ InUnit(ret)
    /\ (pc \in {"pixel", "display"} /\ written # <<>>) => InUnit(pixel_color)
\* a call is about to return a colour with a channel above 1, which only the
\* clamp of line 319 brings back to 1
C2_Witness ==
    /\ stack # <<>>
    /\ Top.part = "return"
    /\ Top.final_color.r > ONE

====
